---- MODULE Spec2Model ----
(***************************************************************************)
(* Model of the journal server: the watcher task (inotify event stream,    *)
(* event_to_path, path_to_doc), the bounded ingestion channel, the         *)
(* persistence worker (doc2db) and the /feed notification relay, all       *)
(* multiplexed on the runtime's fixed pool of worker threads.              *)
(*                                                                         *)
(* Text is modelled as a sequence of tokens: a file name such as           *)
(* <<"U1", ".", "md">> and a file content such as <<"---", "FA", "---",    *)
(* "hello">>.  "U1" and "U2" are the hyphenated texts of two UUIDs, "U1s"  *)
(* is the un-hyphenated text of the first one, "FA" and "FB" are YAML      *)
(* blocks that deserialize as Front, every other token is plain text.      *)
(***************************************************************************)
EXTENDS Integers, Sequences, FiniteSets, TLC

\* ------------------------------------------------------------- bounds ----
MaxEvents == 3
MaxClients == 2
MaxNotifs == 2
Threads == 2
MaxEndPolls == 2
MaxContentLen == 5

\* capacity of the ingestion channel (mpsc::channel(1024)), scaled down
Capacity == 2

None == [tag |-> "None"]
Some(v) == [tag |-> "Some", val |-> v]

\* ------------------------------------------------------ the classifier ----
MaskBits == {"CREATE", "DELETE", "MODIFY", "ISDIR"}

Names ==
  { <<"U1", ".", "md">>, <<"U1s", ".", "md">>, <<"U2", ".", "md">>,
    <<"notes", ".", "md">>, <<"U1", ".", "txt">>, <<"U1">>, <<".", "md">>,
    <<"U1", "md">>, <<"U1", ".", "md", ".", "txt">>, <<"U1", ".">> }

RawEvents == [name : {None} \cup {Some(n) : n \in Names}, mask : SUBSET MaskBits]

RECURSIVE LastDot(_, _)
LastDot(s, i) == IF i = 0 THEN 0 ELSE IF s[i] = "." THEN i ELSE LastDot(s, i - 1)

\* std::path::Path::extension of a one-component path
extension(path) ==
  LET d == LastDot(path, Len(path))
  IN IF d <= 1 THEN None ELSE Some(SubSeq(path, d + 1, Len(path)))

\* std::path::Path::file_stem of a one-component path
file_stem(path) ==
  LET d == LastDot(path, Len(path))
  IN IF d <= 1 THEN Some(path) ELSE Some(SubSeq(path, 1, d - 1))

\* event_to_path without the directory test in the CREATE branch
event_to_path_dirs(event) ==
  IF event.name.tag = "Some"
  THEN LET path == event.name.val
           ext == extension(path)
       IN IF ext.tag = "Some"
          THEN IF ext.val = <<"md">>
               THEN IF "CREATE" \in event.mask
                    THEN Some(path)
                    ELSE IF "DELETE" \in event.mask
                    THEN None
                    ELSE IF "MODIFY" \in event.mask
                    THEN IF "ISDIR" \in event.mask THEN None ELSE Some(path)
                    ELSE None
               ELSE None
          ELSE None
  ELSE None

\* event_to_path without the test of the extension
event_to_path_anyext(event) ==
  IF event.name.tag = "Some"
  THEN LET path == event.name.val
           ext == extension(path)
       IN IF ext.tag = "Some"
          THEN IF TRUE
               THEN IF "CREATE" \in event.mask
                    THEN IF "ISDIR" \in event.mask THEN None ELSE Some(path)
                    ELSE IF "DELETE" \in event.mask
                    THEN None
                    ELSE IF "MODIFY" \in event.mask
                    THEN IF "ISDIR" \in event.mask THEN None ELSE Some(path)
                    ELSE None
               ELSE None
          ELSE None
  ELSE None

\* event_to_path that takes created files only
event_to_path_created(event) ==
  IF event.name.tag = "Some"
  THEN LET path == event.name.val
           ext == extension(path)
       IN IF ext.tag = "Some"
          THEN IF ext.val = <<"md">>
               THEN IF "CREATE" \in event.mask
                    THEN IF "ISDIR" \in event.mask THEN None ELSE Some(path)
                    ELSE IF "DELETE" \in event.mask
                    THEN None
                    ELSE IF "MODIFY" \in event.mask
                    THEN None
                    ELSE None
               ELSE None
          ELSE None
  ELSE None

\* event_to_path that takes a deleted file like a modified one
event_to_path_deleted(event) ==
  IF event.name.tag = "Some"
  THEN LET path == event.name.val
           ext == extension(path)
       IN IF ext.tag = "Some"
          THEN IF ext.val = <<"md">>
               THEN IF "CREATE" \in event.mask
                    THEN IF "ISDIR" \in event.mask THEN None ELSE Some(path)
                    ELSE IF "DELETE" \in event.mask
                    THEN IF "ISDIR" \in event.mask THEN None ELSE Some(path)
                    ELSE IF "MODIFY" \in event.mask
                    THEN IF "ISDIR" \in event.mask THEN None ELSE Some(path)
                    ELSE None
               ELSE None
          ELSE None
  ELSE None

event_to_path(event) ==
  IF event.name.tag = "Some"
  THEN LET path == event.name.val
           ext == extension(path)
       IN IF ext.tag = "Some"
          THEN IF ext.val = <<"md">>
               THEN IF "CREATE" \in event.mask
                    THEN IF "ISDIR" \in event.mask THEN None ELSE Some(path)
                    ELSE IF "DELETE" \in event.mask
                    THEN None
                    ELSE IF "MODIFY" \in event.mask
                    THEN IF "ISDIR" \in event.mask THEN None ELSE Some(path)
                    ELSE None
               ELSE None
          ELSE None
  ELSE None

\* ---------------------------------------------------------- the parser ----
Dash == "---"

DocKind == {"Doc", "Post"}
DocGenre == {"Tutorial", "Howto", "Background", "Reference"}

default_kind == "Doc"
default_genre == "Tutorial"

\* a line break
NL == "NL"

\* the YAML mapping a front-matter block holds: "FA" sets every key, "FB"
\* leaves kind and genre out, any other text is no mapping of these keys;
\* line breaks around the block do not count
YamlOf(seg) ==
  LET text == SelectSeq(seg, LAMBDA t : t # NL)
  IN
  IF text = <<"FA">>
  THEN Some([title |-> "T", abstract |-> "A", author |-> "Au", tags |-> <<"x", "y">>,
             image |-> "img", kind |-> "post", genre |-> "howto"])
  ELSE IF text = <<"FB">>
  THEN Some([title |-> "T2", abstract |-> "A2", author |-> "Au", tags |-> <<"y", "x">>,
             image |-> "img"])
  ELSE None

\* #[serde(rename_all = "lowercase")] on DocKind and DocGenre
KindOf(text) == IF text = "doc" THEN "Doc" ELSE "Post"
GenreOf(text) ==
  CASE text = "tutorial" -> "Tutorial" [] text = "howto" -> "Howto"
    [] text = "background" -> "Background" [] OTHER -> "Reference"

\* serde_yaml::from_str::<Front>: `abstract` is renamed to outline, kind and
\* genre have defaults
FrontOf(seg) ==
  LET y == YamlOf(seg)
  IN IF y.tag = "None" THEN None
     ELSE LET m == y.val
          IN Some([title |-> m.title, outline |-> m.abstract, author |-> m.author,
                   tags |-> m.tags, image |-> m.image,
                   kind |-> IF "kind" \in DOMAIN m THEN KindOf(m.kind) ELSE default_kind,
                   genre |-> IF "genre" \in DOMAIN m THEN GenreOf(m.genre)
                             ELSE default_genre])

\* uuid::Uuid::parse_str: the hyphenated and the simple text of a UUID parse
\* to the same value.
ParseUuid(base) ==
  IF base = <<"U1">> \/ base = <<"U1s">> THEN Some(1)
  ELSE IF base = <<"U2">> THEN Some(2)
  ELSE None

RECURSIVE FirstDash(_, _)
FirstDash(s, i) ==
  IF i > Len(s) THEN 0 ELSE IF s[i] = Dash THEN i ELSE FirstDash(s, i + 1)

\* str::splitn(3, "---")
splitn3(contents) ==
  LET d1 == FirstDash(contents, 1)
  IN IF d1 = 0 THEN <<contents>>
     ELSE LET d2 == FirstDash(contents, d1 + 1)
          IN IF d2 = 0
             THEN <<SubSeq(contents, 1, d1 - 1), SubSeq(contents, d1 + 1, Len(contents))>>
             ELSE <<SubSeq(contents, 1, d1 - 1), SubSeq(contents, d1 + 1, d2 - 1),
                    SubSeq(contents, d2 + 1, Len(contents))>>

Ok(v) == [tag |-> "Ok", val |-> v]
Err(e) == [tag |-> "Err", err |-> e]

Dirs == {"assets", "journal"}
IOFail == [tag |-> "IOFail"]
Readable(c) == [tag |-> "File", contents |-> c]

\* path_to_doc without the guard on empty content
path_to_doc_noguard(path, fs) ==
  LET file == fs["assets"]
  IN IF file.tag = "IOFail" THEN Err("FileIOError")
     ELSE LET contents == file.contents
              v == splitn3(contents)
              id == ParseUuid(file_stem(path).val)
          IN IF Len(v) < 3 THEN Err("FileError")
             ELSE LET front == FrontOf(v[2])
                  IN IF id.tag = "None" THEN Err("UuidError")
                     ELSE IF front.tag = "None" THEN Err("YamlError")
                     ELSE Ok(Some([front |-> front.val, id |-> id.val,
                                   content |-> v[3]]))

\* path_to_doc that derives the id before it splits the content
path_to_doc_stemfirst(path, fs) ==
  LET file == fs["assets"]
  IN IF file.tag = "IOFail" THEN Err("FileIOError")
     ELSE LET contents == file.contents
              v == splitn3(contents)
              id == ParseUuid(file_stem(path).val)
          IN IF Len(contents) = 0 THEN Ok(None)
             ELSE IF id.tag = "None" THEN Err("UuidError")
             ELSE IF Len(v) < 3 THEN Err("FileError")
             ELSE LET front == FrontOf(v[2])
                  IN IF id.tag = "None" THEN Err("UuidError")
                     ELSE IF front.tag = "None" THEN Err("YamlError")
                     ELSE Ok(Some([front |-> front.val, id |-> id.val,
                                   content |-> v[3]]))

\* path_to_doc that deserializes the front matter before it derives the id
path_to_doc_yamlfirst(path, fs) ==
  LET file == fs["assets"]
  IN IF file.tag = "IOFail" THEN Err("FileIOError")
     ELSE LET contents == file.contents
              v == splitn3(contents)
              id == ParseUuid(file_stem(path).val)
          IN IF Len(contents) = 0 THEN Ok(None)
             ELSE IF Len(v) < 3 THEN Err("FileError")
             ELSE LET front == FrontOf(v[2])
                  IN IF front.tag = "None" THEN Err("YamlError")
                     ELSE IF id.tag = "None" THEN Err("UuidError")
                     ELSE Ok(Some([front |-> front.val, id |-> id.val,
                                   content |-> v[3]]))

\* path_to_doc that keeps the text before the first marker as the content
path_to_doc_preamble(path, fs) ==
  LET file == fs["assets"]
  IN IF file.tag = "IOFail" THEN Err("FileIOError")
     ELSE LET contents == file.contents
              v == splitn3(contents)
              id == ParseUuid(file_stem(path).val)
          IN IF Len(contents) = 0 THEN Ok(None)
             ELSE IF Len(v) < 3 THEN Err("FileError")
             ELSE LET front == FrontOf(v[2])
                  IN IF id.tag = "None" THEN Err("UuidError")
                     ELSE IF front.tag = "None" THEN Err("YamlError")
                     ELSE Ok(Some([front |-> front.val, id |-> id.val,
                                   content |-> v[1]]))

\* path_to_doc that falls back on the front matter for the id
path_to_doc_titleid(path, fs) ==
  LET file == fs["assets"]
  IN IF file.tag = "IOFail" THEN Err("FileIOError")
     ELSE LET contents == file.contents
              v == splitn3(contents)
              id == ParseUuid(file_stem(path).val)
          IN IF Len(contents) = 0 THEN Ok(None)
             ELSE IF Len(v) < 3 THEN Err("FileError")
             ELSE LET front == FrontOf(v[2])
                  IN IF id.tag = "None" THEN Err("UuidError")
                     ELSE IF front.tag = "None" THEN Err("YamlError")
                     ELSE Ok(Some([front |-> front.val, id |-> IF front.val.title = "T" THEN id.val ELSE 2,
                                   content |-> v[3]]))

\* path_to_doc that splits at every marker and keeps the third part as content
path_to_doc_splitall(path, fs) ==
  LET file == fs["assets"]
  IN IF file.tag = "IOFail" THEN Err("FileIOError")
     ELSE LET contents == file.contents
              v == splitn3(contents)
              id == ParseUuid(file_stem(path).val)
          IN IF Len(contents) = 0 THEN Ok(None)
             ELSE IF Len(v) < 3 THEN Err("FileError")
             ELSE LET front == FrontOf(v[2])
                  IN IF id.tag = "None" THEN Err("UuidError")
                     ELSE IF front.tag = "None" THEN Err("YamlError")
                     ELSE Ok(Some([front |-> front.val, id |-> id.val,
                                   content |-> IF FirstDash(v[3], 1) = 0 THEN v[3] ELSE SubSeq(v[3], 1, FirstDash(v[3], 1) - 1)]))

\* fs maps a directory to what opening and reading the file `path` in it gives
\* (updated_at, the wall clock at the end of the parse, is left out of the Doc)
path_to_doc(path, fs) ==
  LET file == fs["assets"]
  IN IF file.tag = "IOFail" THEN Err("FileIOError")
     ELSE LET contents == file.contents
              v == splitn3(contents)
          IN IF Len(contents) = 0 THEN Ok(None)
             ELSE IF Len(v) < 3 THEN Err("FileError")
             ELSE LET id == ParseUuid(file_stem(path).val)
                      front == FrontOf(v[2])
                  IN IF id.tag = "None" THEN Err("UuidError")
                     ELSE IF front.tag = "None" THEN Err("YamlError")
                     ELSE Ok(Some([front |-> front.val, id |-> id.val,
                                   content |-> v[3]]))

\* ------------------------------------------------------------- state ----
VARIABLES
  wpc,          \* watcher task: "setup", "poll", "send", "err_send", "done"
  pending,      \* the payload the watcher is sending
  nev,          \* number of events the event source has emitted
  streamEnded,  \* the document stream has yielded end-of-sequence
  endPolls,     \* calls of try_next on the stream after it ended
  wlog,         \* error! lines of the watcher task
  chan,         \* the ingestion channel (tx1 -> rx1)
  enq,          \* history: payloads accepted by tx1.send
  kpc,          \* persistence worker: "recv", "await", "done"
  calls,        \* doc2db futures that were started and have not completed
  deq,          \* history: payloads returned by rx1.recv
  issued,       \* history: events whose upsert query was sent to the store
  klog,         \* error!/info! lines of the persistence worker
  spinners,     \* worker threads taken by a `loop {}` task of the relay
  cpc,          \* per /feed request: "none", "listen", "stream", "ended", "gone", "failed"
  fwd,          \* per request, the task forwarding the connection: "none", "run", "panicked"
  spin,         \* per request, the `loop {}` task: "none", "spawned", "running"
  listening,    \* requests whose LISTEN the store has executed
  inbox,        \* per request, messages the store sent on its connection
  rxq,          \* per request, the unbounded channel (tx -> rx)
  out,          \* per request, the server-sent events written to the client
  pubs,         \* history: for each NOTIFY, the requests subscribed at that time
  arg,          \* the input of a function checked on its own
  res           \* its result

watcher_vars == <<wpc, pending, nev, streamEnded, endPolls, wlog>>
worker_vars == <<kpc, calls, deq, issued, klog>>
ingest_vars == <<watcher_vars, chan, enq, worker_vars>>
relay_vars == <<cpc, fwd, spin, listening, inbox, rxq, out, pubs>>
fun_vars == <<arg, res>>
vars == <<ingest_vars, spinners, relay_vars, fun_vars>>

\* A task runs only on a worker thread, and a thread that runs `loop {}`
\* never comes back to the scheduler.
FreeThread == spinners < Threads

\* ------------------------------------------------- the watcher task ----
good == <<Dash, "FA", Dash, "hello">>
good2 == <<"pre", Dash, "FB", Dash, "hello", Dash, "more">>

Ev(n, m) == [name |-> Some(n), mask |-> m]
Fs(f) == [d \in Dirs |-> f]

\* what the event source emits together with the state of the file then
StreamInputs ==
  { <<Ev(<<"U1", ".", "md">>, {"CREATE"}), Fs(Readable(good))>>,
    <<Ev(<<"U2", ".", "md">>, {"MODIFY"}), Fs(Readable(good2))>>,
    <<Ev(<<"U1", ".", "md">>, {"MODIFY"}), Fs(Readable(<<>>))>>,
    <<Ev(<<"U1", ".", "md">>, {"DELETE"}), Fs(IOFail)>>,
    <<Ev(<<"U1", ".", "md">>, {"CREATE", "ISDIR"}), Fs(IOFail)>>,
    <<Ev(<<"U1", ".", "txt">>, {"CREATE"}), Fs(Readable(good))>>,
    <<Ev(<<"notes", ".", "md">>, {"CREATE"}), Fs(Readable(good))>>,
    <<Ev(<<"U1", ".", "md">>, {"MODIFY"}), Fs(IOFail)>>,
    <<Ev(<<"U2", ".", "md">>, {"CREATE"}), Fs(Readable(<<"hello">>))>>,
    <<Ev(<<"U2", ".", "md">>, {"MODIFY"}), Fs(Readable(<<Dash, "bad", Dash>>))>> }

DocPayload(doc, k) == [tag |-> "Doc", doc |-> doc, ev |-> k]
ErrorPayload == [tag |-> "Error", msg |-> "Could not get doc stream", ev |-> 0]
NoPayload == [tag |-> "Nothing"]

\* tx1 is owned by the watcher task and dropped when the task returns
TxDropped == wpc = "done"

\* event_stream.and_then(event_to_path).try_filter_map(..)
\*             .and_then(path_to_doc).try_filter_map(..) applied to one event
StreamItem(event, fs) ==
  LET opt_path == event_to_path(event)
  IN IF opt_path.tag = "None" THEN Ok(None) ELSE path_to_doc(opt_path.val, fs)

\* a setup whose failure is logged and then falls into the event loop
WatcherSetup_enter ==
  /\ wpc = "setup" /\ FreeThread
  /\ \E ok \in BOOLEAN :
       IF ok
       THEN /\ wpc' = "poll"
            /\ UNCHANGED <<pending, wlog>>
       ELSE /\ wpc' = "poll"
            /\ UNCHANGED pending
            /\ wlog' = Append(wlog, [ev |-> 0, err |-> "document stream error"])
  /\ UNCHANGED <<nev, streamEnded, endPolls, chan, enq, worker_vars, spinners,
                 relay_vars, fun_vars>>

\* watcher.doc_stream(): Inotify::init, add_watch and event_stream may fail
WatcherSetup ==
  /\ wpc = "setup" /\ FreeThread
  /\ \E ok \in BOOLEAN :
       IF ok
       THEN /\ wpc' = "poll"
            /\ UNCHANGED <<pending, wlog>>
       ELSE /\ wpc' = "err_send"
            /\ pending' = ErrorPayload
            /\ wlog' = Append(wlog, [ev |-> 0, err |-> "document stream error"])
  /\ UNCHANGED <<nev, streamEnded, endPolls, chan, enq, worker_vars, spinners,
                 relay_vars, fun_vars>>

\* the match with an Err arm that leaves the loop
AfterItem_break(item) ==
  IF item.tag = "Err" THEN "done"
  ELSE IF item.val.tag = "Some" THEN "send" ELSE "poll"

\* a match whose Err arm goes on to the send as well
AfterItem_senderr(item) ==
  IF item.tag = "Ok" /\ item.val.tag = "None" THEN "poll" ELSE "send"

\* the match on the result of try_next: a document is sent, an error is
\* logged, and either way the loop goes on
AfterItem(item) ==
  IF item.tag = "Ok" /\ item.val.tag = "Some" THEN "send" ELSE "poll"

\* one turn of `stream.try_next().await` on a live stream: the next event goes
\* through the combinators; a filtered event leaves try_next pending
WatcherPoll ==
  /\ wpc = "poll" /\ FreeThread /\ ~streamEnded /\ nev < MaxEvents
  /\ \E in \in StreamInputs :
       LET item == StreamItem(in[1], in[2])
           k == nev + 1
       IN /\ nev' = k
          /\ wpc' = AfterItem(item)
          /\ wlog' = IF item.tag = "Err" THEN Append(wlog, [ev |-> k, err |-> item.err])
                     ELSE wlog
          /\ pending' = IF item.tag = "Ok" /\ item.val.tag = "Some"
                        THEN DocPayload(item.val.val, k) ELSE pending
  /\ UNCHANGED <<streamEnded, endPolls, chan, enq, worker_vars, spinners, relay_vars,
                 fun_vars>>

\* the event stream reads end-of-file: try_next gives Ok(None), the Ok arm
\* finds no document and the loop, which has no break, goes on
WatcherStreamEnd ==
  /\ wpc = "poll" /\ FreeThread /\ ~streamEnded
  /\ streamEnded' = TRUE
  /\ UNCHANGED <<wpc, pending, nev, endPolls, wlog, chan, enq, worker_vars, spinners,
                 relay_vars, fun_vars>>

\* the next turn of the loop calls try_next on the finished stream
WatcherPollEnded ==
  /\ wpc = "poll" /\ FreeThread /\ streamEnded /\ endPolls < MaxEndPolls
  /\ endPolls' = endPolls + 1
  /\ UNCHANGED <<wpc, pending, nev, streamEnded, wlog, chan, enq, worker_vars,
                 spinners, relay_vars, fun_vars>>

\* a send that never waits for a free slot
SendReady_always == TRUE

\* tx1.send(payload).await: completes only when the channel has a free slot
SendReady == Len(chan) < Capacity

WatcherSend ==
  /\ wpc = "send" /\ FreeThread /\ SendReady
  /\ chan' = Append(chan, pending)
  /\ enq' = Append(enq, pending)
  /\ pending' = NoPayload
  /\ wpc' = "poll"
  /\ UNCHANGED <<nev, streamEnded, endPolls, wlog, worker_vars, spinners, relay_vars,
                 fun_vars>>

\* the else branch: send Payload::Error, drop(watcher), the task returns
WatcherErrSend ==
  /\ wpc = "err_send" /\ FreeThread /\ SendReady
  /\ chan' = Append(chan, pending)
  /\ enq' = Append(enq, pending)
  /\ pending' = NoPayload
  /\ wpc' = "done"
  /\ UNCHANGED <<nev, streamEnded, endPolls, wlog, worker_vars, spinners, relay_vars,
                 fun_vars>>

\* ------------------------------------------- the persistence worker ----
\* a receive that takes the newest payload
recv_newest(q) == [payload |-> q[Len(q)], rest |-> SubSeq(q, 1, Len(q) - 1)]

\* rx1.recv() on a channel that holds q: the oldest payload and what is left
recv(q) == [payload |-> Head(q), rest |-> Tail(q)]

\* a worker that starts doc2db and does not wait for it
WorkerAwaits_detached(payload) == FALSE

\* the worker awaits the future of the match arm before the next recv
WorkerAwaits(payload) == TRUE

\* `while let Some(payload) = rx1.recv().await` followed by the dispatch
WorkerRecv ==
  /\ kpc = "recv" /\ FreeThread /\ chan # <<>>
  /\ LET payload == recv(chan).payload
     IN /\ chan' = recv(chan).rest
        /\ deq' = Append(deq, payload)
        /\ IF payload.tag = "Doc"
           THEN /\ calls' = calls \cup {[ev |-> payload.ev, doc |-> payload.doc,
                                          stage |-> "pool"]}
                /\ kpc' = IF WorkerAwaits(payload) THEN "await" ELSE "recv"
                /\ UNCHANGED klog
           ELSE /\ klog' = Append(klog, [ev |-> payload.ev, line |-> payload.tag])
                /\ UNCHANGED <<calls, kpc>>
  /\ UNCHANGED <<watcher_vars, enq, issued, spinners, relay_vars, fun_vars>>

\* rx1.recv() gives None once tx1 is dropped and the channel is empty
WorkerEnd ==
  /\ kpc = "recv" /\ FreeThread /\ chan = <<>> /\ TxDropped
  /\ kpc' = "done"
  /\ UNCHANGED <<watcher_vars, chan, enq, calls, deq, issued, klog, spinners,
                 relay_vars, fun_vars>>

Failed(outcome) == outcome # "id"

\* a worker that leaves its loop when doc2db fails
AfterUpsert_bail(outcome) == IF Failed(outcome) THEN "done" ELSE "recv"

\* what the worker does with the result of doc2db: map_ok_or_else logs either
\* way and the loop goes back to recv
AfterUpsert(outcome) == "recv"

\* a worker that tries a failed call once more
Retry_once(call, outcome) ==
  IF Failed(outcome) /\ ~(\E i \in DOMAIN klog : klog[i].ev = call.ev)
  THEN {[call EXCEPT !.stage = "pool"]}
  ELSE {}

\* the calls that take the place of a completed doc2db call: none, the
\* worker never retries
Retry(call, outcome) == {}

Complete(call, outcome) ==
  /\ calls' = (calls \ {call}) \cup Retry(call, outcome)
  /\ klog' = Append(klog, [ev |-> call.ev, line |-> outcome])
  /\ kpc' = IF kpc = "await" THEN AfterUpsert(outcome) ELSE kpc

\* doc2db: pool.get().await, connection.prepare(..).await, query_one(..).await;
\* each `?` returns the error
Doc2dbStep ==
  /\ FreeThread
  /\ \E call \in calls : \E ok \in BOOLEAN :
       CASE call.stage = "pool" ->
              /\ IF ok
                 THEN /\ calls' = (calls \ {call}) \cup {[call EXCEPT !.stage = "prepare"]}
                      /\ UNCHANGED <<klog, kpc>>
                 ELSE Complete(call, "insert error: DBPoolError")
              /\ UNCHANGED issued
         [] call.stage = "prepare" ->
              IF ok
              THEN /\ calls' = (calls \ {call}) \cup {[call EXCEPT !.stage = "query"]}
                   /\ issued' = Append(issued, call.ev)
                   /\ UNCHANGED <<klog, kpc>>
              ELSE /\ Complete(call, "insert error: DBError (prepare)")
                   /\ UNCHANGED issued
         [] call.stage = "query" ->
              /\ Complete(call, IF ok THEN "id" ELSE "insert error: DBError (query)")
              /\ UNCHANGED issued
  /\ UNCHANGED <<watcher_vars, chan, enq, deq, spinners, relay_vars, fun_vars>>

\* ---------------------------------------------- the /feed relay ----
Clients == 1 .. MaxClients

Notification(k) == [type |-> "Notification", channel |-> "documents", payload |-> k]

\* the connections to the store that are open: each is owned by the forward
\* task of its request
Upstream == {c \in Clients : fwd[c] = "run"}

\* the connections on which the store delivers NOTIFY documents
Subscribed == {c \in Upstream : c \in listening}

\* GET /feed: the unbounded channel, connect_raw(..).await.unwrap() and
\* tokio::spawn(connection)
FeedConnect(c) ==
  /\ cpc[c] = "none" /\ FreeThread
  /\ \A d \in Clients : d < c => cpc[d] # "none"
  /\ \E ok \in BOOLEAN :
       IF ok
       THEN /\ cpc' = [cpc EXCEPT ![c] = "listen"]
            /\ fwd' = [fwd EXCEPT ![c] = "run"]
       ELSE /\ cpc' = [cpc EXCEPT ![c] = "failed"]
            /\ UNCHANGED fwd
  /\ UNCHANGED <<fun_vars, ingest_vars, spinners, spin, listening, inbox, rxq, out, pubs>>

\* client.execute("LISTEN documents;").await.unwrap(), then the `loop {}` task
\* is spawned and the reply streams make_stream(rx); the statement fails when
\* the connection is gone
FeedListen(c) ==
  /\ cpc[c] = "listen" /\ FreeThread
  /\ IF fwd[c] = "run"
     THEN /\ listening' = listening \cup {c}
          /\ spin' = [spin EXCEPT ![c] = "spawned"]
          /\ cpc' = [cpc EXCEPT ![c] = "stream"]
     ELSE /\ cpc' = [cpc EXCEPT ![c] = "failed"]
          /\ UNCHANGED <<listening, spin>>
  /\ UNCHANGED <<fun_vars, ingest_vars, spinners, fwd, inbox, rxq, out, pubs>>

\* the task `loop {}` gets a worker thread and keeps it
SpinStart(c) ==
  /\ spin[c] = "spawned" /\ FreeThread
  /\ spin' = [spin EXCEPT ![c] = "running"]
  /\ spinners' = spinners + 1
  /\ UNCHANGED <<fun_vars, ingest_vars, cpc, fwd, listening, inbox, rxq, out, pubs>>

\* the store executes NOTIFY documents: every subscribed connection gets it
Publish ==
  /\ Len(pubs) < MaxNotifs
  /\ LET k == Len(pubs) + 1
     IN /\ inbox' = [c \in Clients |->
                       IF c \in Subscribed THEN Append(inbox[c], Notification(k))
                       ELSE inbox[c]]
        /\ pubs' = Append(pubs, Subscribed)
  /\ UNCHANGED <<fun_vars, ingest_vars, spinners, cpc, fwd, spin, listening, rxq, out>>

\* stream::poll_fn(connection.poll_message).forward(tx): one message; the
\* send fails once rx is dropped and `r.unwrap()` panics
Forward(c) ==
  /\ fwd[c] = "run" /\ FreeThread /\ inbox[c] # <<>>
  /\ IF cpc[c] \in {"gone", "failed", "ended"}
     THEN /\ fwd' = [fwd EXCEPT ![c] = "panicked"]
          /\ inbox' = [inbox EXCEPT ![c] = <<>>]
          /\ UNCHANGED rxq
     ELSE /\ rxq' = [rxq EXCEPT ![c] = Append(rxq[c], Head(inbox[c]))]
          /\ inbox' = [inbox EXCEPT ![c] = Tail(inbox[c])]
          /\ UNCHANGED fwd
  /\ UNCHANGED <<fun_vars, ingest_vars, spinners, cpc, spin, listening, out, pubs>>

\* the connection to the store breaks: poll_message gives an error and
\* map_err(|e| panic!(e)) ends the forward task, which drops tx
ConnLost(c) ==
  /\ fwd[c] = "run" /\ FreeThread
  /\ fwd' = [fwd EXCEPT ![c] = "panicked"]
  /\ inbox' = [inbox EXCEPT ![c] = <<>>]
  /\ UNCHANGED <<fun_vars, ingest_vars, spinners, cpc, spin, listening, rxq, out, pubs>>

\* the store sends an asynchronous message that is no notification (a notice)
\* on an open connection
Notice(c) ==
  /\ fwd[c] = "run"
  /\ Len(inbox[c]) + Len(rxq[c]) < MaxNotifs
  /\ inbox' = [inbox EXCEPT ![c] = Append(inbox[c], [type |-> "Notice"])]
  /\ UNCHANGED <<fun_vars, ingest_vars, spinners, cpc, fwd, spin, listening, rxq, out, pubs>>

\* a make_stream that turns every message into an event
SseOf_every(m) ==
  IF m.type = "Notification"
  THEN Some([event |-> m.channel, data |-> m.payload])
  ELSE Some([event |-> "notice", data |-> 0])

\* make_stream: rx.filter_map(..) turns a message into a server-sent event
SseOf(m) ==
  IF m.type = "Notification"
  THEN Some([event |-> m.channel, data |-> m.payload])
  ELSE None

\* the reply polls the stream: one message of rx
Emit(c) ==
  /\ cpc[c] = "stream" /\ FreeThread /\ rxq[c] # <<>>
  /\ LET e == SseOf(Head(rxq[c]))
     IN out' = [out EXCEPT ![c] = IF e.tag = "Some" THEN Append(out[c], e.val) ELSE out[c]]
  /\ rxq' = [rxq EXCEPT ![c] = Tail(rxq[c])]
  /\ UNCHANGED <<fun_vars, ingest_vars, spinners, cpc, fwd, spin, listening, inbox, pubs>>

\* rx ends once tx is dropped and the channel is drained
StreamEnd(c) ==
  /\ cpc[c] = "stream" /\ FreeThread /\ rxq[c] = <<>> /\ fwd[c] = "panicked"
  /\ cpc' = [cpc EXCEPT ![c] = "ended"]
  /\ UNCHANGED <<fun_vars, ingest_vars, spinners, fwd, spin, listening, inbox, rxq, out, pubs>>

\* the client closes its connection: the reply and rx are dropped
Disconnect(c) ==
  /\ cpc[c] = "stream"
  /\ cpc' = [cpc EXCEPT ![c] = "gone"]
  /\ rxq' = [rxq EXCEPT ![c] = <<>>]
  /\ UNCHANGED <<fun_vars, ingest_vars, spinners, fwd, spin, listening, inbox, out, pubs>>

\* ------------------------------------------- functions on their own ----
NotRun == [tag |-> "NotRun"]

\* event_to_path applied to a raw event
Classify ==
  /\ res = NotRun
  /\ res' = event_to_path(arg)
  /\ UNCHANGED <<arg, ingest_vars, spinners, relay_vars>>

\* path_to_doc applied to a candidate path, for a watched root and the files
\* of that name
Parse ==
  /\ res = NotRun
  /\ res' = path_to_doc(arg.path, arg.fs)
  /\ UNCHANGED <<arg, ingest_vars, spinners, relay_vars>>

\* path_to_doc applied to two candidate files, one after the other
ParsePair ==
  /\ res = NotRun
  /\ res' = [first |-> path_to_doc(arg.first.path, arg.first.fs),
             second |-> path_to_doc(arg.second.path, arg.second.fs)]
  /\ UNCHANGED <<arg, ingest_vars, spinners, relay_vars>>

\* ------------------------------------------- store error conversion ----
\* str::starts_with on texts written as sequences of characters
StartsWith(s, p) == Len(s) >= Len(p) /\ SubSeq(s, 1, Len(p)) = p

\* a call that unwinds instead of returning
Panic == [tag |-> "Panic"]

\* impl TryFrom<&PgError> for ProvideError: code().unwrap() and
\* details().unwrap() panic on None
ProvideError_try_from(pg_err) ==
  IF pg_err.code.tag = "None" THEN Panic
  ELSE LET code == pg_err.code.val
       IN IF code = <<"2", "3", "5", "0", "5">>
          THEN IF pg_err.details.tag = "None" THEN Panic
               ELSE Ok([tag |-> "UniqueViolation", details |-> pg_err.details.val])
          ELSE IF StartsWith(code, <<"2", "3">>)
          THEN Ok([tag |-> "ModelViolation", details |-> pg_err.message])
          ELSE Err("()")

\* impl From<sqlx::Error> for ProvideError
ProvideError_from(e) ==
  CASE e.tag = "RowNotFound" -> [tag |-> "NotFound"]
    [] e.tag = "Database" ->
         IF e.pg
         THEN LET r == ProvideError_try_from(e.err)
              IN IF r.tag = "Panic" THEN Panic
                 ELSE IF r.tag = "Ok" THEN r.val
                 ELSE [tag |-> "UnHandledError", source |-> e]
         ELSE [tag |-> "UnHandledError", source |-> e]
    [] OTHER -> [tag |-> "UnHandledError", source |-> e]

\* ProvideError::from applied to an error of the store
Convert ==
  /\ res = NotRun
  /\ res' = ProvideError_from(arg)
  /\ UNCHANGED <<arg, ingest_vars, spinners, relay_vars>>

\* ---------------------------------------------------- specification ----
InitTasks ==
  /\ wpc = "setup" /\ pending = NoPayload /\ nev = 0 /\ streamEnded = FALSE
  /\ endPolls = 0 /\ wlog = <<>> /\ chan = <<>> /\ enq = <<>>
  /\ kpc = "recv" /\ calls = {} /\ deq = <<>> /\ issued = <<>> /\ klog = <<>>
  /\ spinners = 0
  /\ cpc = [c \in Clients |-> "none"] /\ fwd = [c \in Clients |-> "none"]
  /\ spin = [c \in Clients |-> "none"] /\ listening = {}
  /\ inbox = [c \in Clients |-> <<>>] /\ rxq = [c \in Clients |-> <<>>]
  /\ out = [c \in Clients |-> <<>>] /\ pubs = <<>>

Init == InitTasks /\ arg = None /\ res = NotRun

\* the ingestion path: watcher task, channel, persistence worker
Next ==
  \/ WatcherSetup \/ WatcherPoll \/ WatcherStreamEnd \/ WatcherPollEnded
  \/ WatcherSend \/ WatcherErrSend
  \/ WorkerRecv \/ WorkerEnd \/ Doc2dbStep

Spec == Init /\ [][Next]_vars

\* the relay: /feed requests and the store's notifications
Relay ==
  \E c \in Clients :
    \/ FeedConnect(c) \/ FeedListen(c) \/ SpinStart(c) \/ Forward(c) \/ ConnLost(c)
    \/ Emit(c) \/ StreamEnd(c) \/ Disconnect(c)

RelayNext == Relay \/ Publish

RelaySpec == Init /\ [][RelayNext]_vars

\* every spawned task that can run gets a worker thread in the end
RelayFairness ==
  \A c \in Clients :
    /\ WF_vars(FeedListen(c)) /\ WF_vars(SpinStart(c)) /\ WF_vars(Forward(c))
    /\ WF_vars(Emit(c)) /\ WF_vars(StreamEnd(c))

FairRelaySpec == RelaySpec /\ RelayFairness

\* ingestion and /feed requests on the one thread pool of the runtime
Arrivals ==
  \E c \in Clients :
    FeedConnect(c) \/ FeedListen(c) \/ SpinStart(c) \/ Disconnect(c)

PoolNext == Next \/ Arrivals

PoolSpec == Init /\ [][PoolNext]_vars

\* every task that can run gets a worker thread in the end
PoolFairness ==
  /\ WF_vars(WatcherSend) /\ WF_vars(WatcherErrSend)
  /\ WF_vars(WorkerRecv) /\ WF_vars(WorkerEnd) /\ WF_vars(Doc2dbStep)
  /\ \A c \in Clients : WF_vars(FeedListen(c)) /\ WF_vars(SpinStart(c))

FairPoolSpec == PoolSpec /\ PoolFairness

\* the relay with a store that also sends notices
StreamNext == RelayNext \/ \E c \in Clients : Notice(c)

StreamSpec == Init /\ [][StreamNext]_vars

\* the classifier on every raw event
ClassifyInit == InitTasks /\ arg \in RawEvents /\ res = NotRun

ClassifyNext == Classify

ClassifySpec == ClassifyInit /\ [][ClassifyNext]_vars

\* the parser on every candidate path and file content
Tokens == {Dash, "FA", "FB", "hello", NL}

RECURSIVE SeqsUpTo(_, _)
SeqsUpTo(S, n) ==
  IF n = 0 THEN {<<>>}
  ELSE LET shorter == SeqsUpTo(S, n - 1)
       IN shorter \cup {Append(q, t) : q \in {x \in shorter : Len(x) = n - 1}, t \in S}

Contents == SeqsUpTo(Tokens, MaxContentLen)

\* the names the classifier lets through
Candidates == {n \in Names : event_to_path(Ev(n, {"CREATE"})) = Some(n)}

FileStates == {IOFail} \cup {Readable(c) : c \in Contents}
OtherFiles == {IOFail, Readable(<<>>), Readable(good)}

ParseInputs ==
  [root : Dirs, path : Candidates,
   fs : {[d \in Dirs |-> IF d = "assets" THEN f ELSE g] :
           f \in FileStates, g \in OtherFiles}]

ParseInit == InitTasks /\ arg \in ParseInputs /\ res = NotRun

ParseNext == Parse

ParseSpec == ParseInit /\ [][ParseNext]_vars

\* the parser on two candidate files
PairContents ==
  {<<>>, good, <<Dash, "FB", Dash, "hello">>, <<"hello", Dash, "FA", Dash>>,
   <<Dash, "hello", Dash>>}

PairFiles ==
  [path : Candidates, fs : {Fs(IOFail)} \cup {Fs(Readable(c)) : c \in PairContents}]

PairInputs == [first : PairFiles, second : PairFiles]

PairInit == InitTasks /\ arg \in PairInputs /\ res = NotRun

PairNext == ParsePair

PairSpec == PairInit /\ [][PairNext]_vars

\* the conversion on every error of the store
Codes ==
  { <<"2", "3", "5", "0", "5">>, <<"2", "3", "5", "0", "3">>, <<"2", "3", "5", "0", "2">>,
    <<"2", "3", "0", "0", "0">>, <<"2", "3">>, <<"2">>, <<>>, <<"2", "2", "0", "2", "3">>,
    <<"4", "2", "6", "0", "1">>, <<"0", "8", "0", "0", "6">>, <<"3", "2", "3", "5", "0">> }

PgErrors ==
  [code : {None} \cup {Some(c) : c \in Codes},
   details : {None, Some("d1"), Some("d2")},
   message : {"m1", "m2"}]

StoreErrors ==
  {[tag |-> "RowNotFound"], [tag |-> "Io"], [tag |-> "Decode"]}
    \cup [tag : {"Database"}, pg : {TRUE}, err : PgErrors]
    \cup [tag : {"Database"}, pg : {FALSE}, err : {"other"}]

ConvertInit == InitTasks /\ arg \in StoreErrors /\ res = NotRun

ConvertNext == Convert

ConvertSpec == ConvertInit /\ [][ConvertNext]_vars

\* ------------------------------------------------------------ claims ----

\* C1: the channel never holds more than Capacity payloads, a send on a full
\* channel does not complete before a receive, no payload is dropped or
\* overwritten and the worker receives the payloads in the order they were
\* sent.
ChannelBackpressureFifo ==
  /\ [](Len(chan) <= Capacity /\ enq = deq \o chan)
  /\ [](wpc \in {"send", "err_send"} => pending # NoPayload)
  /\ [][Len(chan) = Capacity => enq' = enq]_vars

\* the watcher is suspended in send on a full channel
SuspendedOnFull == wpc = "send" /\ Len(chan) = Capacity /\ pending.tag = "Doc"

IsInsertError(l) == l.line \notin {"id", "Error", "Warning"}

\* C2: the step in which doc2db fails logs the failure and takes the worker
\* back to recv with the channel as it was: the loop does not end and the
\* next payload is still there to be received.
UpsertFailureNotFatal ==
  [][(Len(klog') = Len(klog) + 1 /\ IsInsertError(klog'[Len(klog')]))
       => (kpc' = "recv" /\ chan' = chan)]_vars

\* a payload was processed after the upsert of an earlier one had failed
ProcessedAfterFailure ==
  \E i, j \in DOMAIN klog :
    i < j /\ IsInsertError(klog[i]) /\ klog[i].ev >= 1 /\ klog[j].ev > klog[i].ev

Delivered(c, k) ==
  \E i \in DOMAIN out[c] : out[c][i] = [event |-> "documents", data |-> k]

\* C3: a client stream gets a notification only if it was subscribed when the
\* store published it, and every client stream subscribed then gets it with
\* channel name and payload unchanged (as long as the stream is there).
NotificationsReachSubscribers ==
  /\ [](\A c \in Clients : \A k \in 1 .. Len(pubs) : Delivered(c, k) => c \in pubs[k])
  /\ \A c \in Clients : \A k \in 1 .. MaxNotifs :
       (k <= Len(pubs) /\ c \in pubs[k])
         ~> (Delivered(c, k) \/ cpc[c] # "stream" \/ fwd[c] # "run")

\* C4: the relay never holds more than one upstream connection to the store,
\* whatever the number of client streams.
OneUpstreamConnection == Cardinality(Upstream) <= 1

\* C5: once the event stream has ended the watcher does not call try_next on
\* it again.
NoPollAfterStreamEnd == [][streamEnded => endPolls' = endPolls]_vars

\* C6: the step in which the file of an event fails to parse logs the failure
\* and leaves the watcher in its loop, the stream live and the channel as it
\* was.
ParseFailureNotFatal ==
  [][(wpc = "poll" /\ Len(wlog') = Len(wlog) + 1)
       => (wpc' = "poll" /\ ~streamEnded' /\ chan' = chan /\ pending' = pending)]_vars

\* the document of event K+1 was sent after the file of event K failed to parse
SentAfterParseFailure ==
  \E i \in DOMAIN wlog : \E j \in DOMAIN enq :
    wlog[i].ev >= 1 /\ enq[j].tag = "Doc" /\ enq[j].ev = wlog[i].ev + 1

\* C7: the upsert queries reach the store in the order in which the event
\* source emitted their events.
UpsertsInEventOrder ==
  \A i, j \in DOMAIN issued : i < j => issued[i] < issued[j]

\* the upserts of two events were issued
TwoUpsertsIssued == Len(issued) >= 2

Count(seq, P(_)) == Cardinality({i \in DOMAIN seq : P(seq[i])})

\* C8: for every event there is at most one payload sent, at most one call of
\* doc2db, started or completed, and at most one upsert query.
OneUpsertPerPayload ==
  \A k \in 1 .. MaxEvents :
    /\ Count(enq, LAMBDA p : p.ev = k) <= 1
    /\ Count(issued, LAMBDA e : e = k) <= 1
    /\ Count(klog, LAMBDA l : l.ev = k) + Cardinality({c \in calls : c.ev = k})
         <= Count(deq, LAMBDA p : p.ev = k)

\* an upsert query failed and the worker is back at recv with no call left
FailedUpsertDropped ==
  /\ \E i \in DOMAIN klog : klog[i].line = "insert error: DBError (query)"
  /\ calls = {} /\ kpc = "recv"

\* C9: at most one call of doc2db is in flight, and the worker is waiting for
\* it.
OneUpsertInFlight == Cardinality(calls) <= 1 /\ (calls # {} => kpc = "await")

\* an upsert is in flight after an earlier one completed, the next payload waits
NextPayloadWaits ==
  /\ \E c \in calls : c.stage = "query"
  /\ Len(klog) >= 1 /\ chan # <<>>

\* C10: an event with the directory flag gives no candidate.
DirectoryEventsDiscarded ==
  (res # NotRun /\ "ISDIR" \in arg.mask) => res = None

\* a directory named like a document was created and classified
DirectoryNamedMdClassified ==
  res # NotRun /\ arg = Ev(<<"U1", ".", "md">>, {"CREATE", "ISDIR"})


\* the kind of change of an event: an inotify event carries one of the bits
KindBits(mask) == mask \cap {"CREATE", "DELETE", "MODIFY"}

\* the text of the name ends in ".md"
EndsInMd(name) ==
  /\ name.tag = "Some"
  /\ Len(name.val) >= 2
  /\ name.val[Len(name.val) - 1] = "." /\ name.val[Len(name.val)] = "md"

\* C11: an event whose name is absent or does not end in ".md" gives no
\* candidate, whatever its mask.
OtherNamesDiscarded ==
  (res # NotRun /\ ~EndsInMd(arg.name)) => res = None

\* the creation of a file with another extension was classified
TxtFileClassified ==
  res # NotRun /\ arg = Ev(<<"U1", ".", "txt">>, {"CREATE"})

\* C12: a Created or a Modified event of a file (not a directory) whose name
\* has the extension md gives the candidate that is the name of the event.
CreatedModifiedGiveThePath ==
  (/\ res # NotRun
   /\ KindBits(arg.mask) \in {{"CREATE"}, {"MODIFY"}}
   /\ "ISDIR" \notin arg.mask
   /\ arg.name.tag = "Some"
   /\ Len(arg.name.val) >= 3 /\ EndsInMd(arg.name))
    => res = Some(arg.name.val)

\* the modification of a document file was classified
ModifiedMdClassified ==
  res # NotRun /\ arg = Ev(<<"U2", ".", "md">>, {"MODIFY"})

\* C13: a Deleted event gives no candidate, whatever the name and the
\* directory flag.
DeletedEventsDiscarded ==
  (res # NotRun /\ KindBits(arg.mask) = {"DELETE"}) => res = None

\* the deletion of a document file was classified
DeletedMdClassified ==
  res # NotRun /\ arg = Ev(<<"U1", ".", "md">>, {"DELETE"})


\* the file the parser opens for the candidate: the one of that name in
\* `assets` (C18 is about the watched root)
Opened == arg.fs["assets"]

\* C14: when the content read for a candidate has length zero the parser
\* gives Ok(None), not a failure, and the watcher loop sends nothing for it.
EmptyContentIsNoDocument ==
  (res # NotRun /\ Opened.tag = "File" /\ Len(Opened.contents) = 0)
    => (res = Ok(None) /\ AfterItem(res) = "poll")

\* an empty file was parsed
EmptyFileParsed ==
  res # NotRun /\ Opened = Readable(<<>>) /\ arg.path = <<"U1", ".", "md">>


DashCount(c) == Cardinality({i \in DOMAIN c : c[i] = Dash})

\* C15: content that is not empty and holds fewer than two `---` markers
\* gives the FileError failure, whatever the stem of the name.
FewDelimitersIsMalformed ==
  (res # NotRun /\ Opened.tag = "File" /\ Len(Opened.contents) > 0
     /\ DashCount(Opened.contents) < 2)
    => res = Err("FileError")

\* a file with one marker and a name that is no UUID was parsed
OneDelimiterParsed ==
  /\ res # NotRun /\ Opened = Readable(<<Dash, "FA">>)
  /\ arg.path = <<"notes", ".", "md">>

\* the stem of the candidate is the text of no UUID
NonUuidStem == arg.path[1] \notin {"U1", "U1s", "U2"}

WellFormedAt(c, i, f) ==
  /\ i + 2 <= Len(c)
  /\ \A j \in 1..(i - 1) : c[j] # Dash
  /\ c[i] = Dash /\ c[i + 1] = f /\ c[i + 2] = Dash

\* the Front that the block with every key set describes
FrontOfFA ==
  [title |-> "T", outline |-> "A", author |-> "Au", tags |-> <<"x", "y">>,
   image |-> "img", kind |-> "Post", genre |-> "Howto"]

UuidOfText(t) == IF t = "U2" THEN 2 ELSE 1

\* C17: parsing a well-formed file whose stem is the text of a UUID gives a
\* document with that UUID as id, the title, outline, tags, kind and genre of
\* the front matter, and the text after the second marker as content.
ParseRoundTrip ==
  \A i \in 1..MaxContentLen :
    (res # NotRun /\ Opened.tag = "File" /\ ~NonUuidStem
       /\ WellFormedAt(Opened.contents, i, "FA"))
      => res = Ok(Some([front |-> FrontOfFA, id |-> UuidOfText(arg.path[1]),
                        content |-> SubSeq(Opened.contents, i + 3,
                                           Len(Opened.contents))]))

\* U2.md with a preamble, the front matter and an empty body was parsed
WellFormedFileParsed ==
  /\ res # NotRun /\ arg.path = <<"U2", ".", "md">>
  /\ Opened = Readable(<<"hello", Dash, "FA", Dash>>)

\* C18: the parser reads the file of that name below the watched root, and
\* gives the FileIOError failure exactly when that file cannot be read.
ParserReadsWatchedRoot ==
  res # NotRun =>
    ((res = Err("FileIOError")) <=> (arg.fs[arg.root].tag = "IOFail"))


\* both files gave a document
BothParsed ==
  /\ res # NotRun
  /\ res.first.tag = "Ok" /\ res.first.val.tag = "Some"
  /\ res.second.tag = "Ok" /\ res.second.val.tag = "Some"

\* two stems are the same text, or the hyphenated and the simple text of the
\* same UUID
SameUuidText(s, t) == s = t \/ {s, t} = {"U1", "U1s"}

SetupFailed == Len(wlog) > 0 /\ wlog[1].ev = 0

\* C20: when the watch cannot be established the watcher takes no event and
\* never enqueues a document, it reports the failure (the log entry and one
\* Error payload) and ends without entering its event loop.
SetupFailureStopsWatcher ==
  SetupFailed =>
    /\ wpc \in {"err_send", "done"}
    /\ nev = 0
    /\ \A i \in DOMAIN enq : enq[i].tag # "Doc"
    /\ wlog = <<[ev |-> 0, err |-> "document stream error"]>>
    /\ IF wpc = "done" THEN enq = <<ErrorPayload>>
       ELSE enq = <<>> /\ pending = ErrorPayload

\* the setup failed, the Error payload was sent and the watcher task ended
SetupFailureReported == SetupFailed /\ wpc = "done" /\ enq = <<ErrorPayload>>


\* C21: once the upstream connection of a client stream is lost, nothing more
\* is forwarded to that stream and the stream ends.
UpstreamLossEndsRelay ==
  /\ [][\A c \in Clients : fwd[c] = "panicked" => Len(rxq'[c]) <= Len(rxq[c])]_vars
  /\ \A c \in Clients :
       (fwd[c] = "panicked" /\ cpc[c] = "stream") ~> (cpc[c] # "stream")


\* C22: no task keeps a worker thread for ever without reaching a suspension
\* point.
NoTaskKeepsAThread == \A c \in Clients : spin[c] # "running"


\* C23: whatever the /feed requests do, every document payload the watcher
\* enqueued is dequeued by the worker, which starts its upsert.
IngestionIndependentOfRelay ==
  \A k \in 1 .. MaxEvents :
    (\E i \in DOMAIN enq : enq[i].tag = "Doc" /\ enq[i].ev = k)
      ~> (\E i \in DOMAIN deq : deq[i].tag = "Doc" /\ deq[i].ev = k)


\* C24: after a client disconnects, the forward task with its store
\* connection and the task spawned for the subscription are released in the
\* end.
DisconnectReleasesResources ==
  \A c \in Clients :
    (cpc[c] = "gone") ~> (fwd[c] # "run" /\ spin[c] \notin {"spawned", "running"})


\* C25: the conversion of a database error never panics; it gives
\* UniqueViolation for code 23505, ModelViolation for the other codes that
\* start with 23, and UnHandledError with the error itself for every other
\* database error, those without a code or without detail text included.
ConversionTotalAndClassifying ==
  (res # NotRun /\ arg.tag = "Database" /\ arg.pg) =>
    LET code == arg.err.code
    IN /\ res # Panic
       /\ IF code = Some(<<"2", "3", "5", "0", "5">>) THEN res.tag = "UniqueViolation"
          ELSE IF code # None /\ Len(code.val) >= 2 /\ code.val[1] = "2" /\ code.val[2] = "3"
          THEN res.tag = "ModelViolation"
          ELSE res = [tag |-> "UnHandledError", source |-> arg]


\* the events of the notifications that were published while c was subscribed
RECURSIVE EventsFor(_, _)
EventsFor(c, k) ==
  IF k = 0 THEN <<>>
  ELSE IF c \in pubs[k]
       THEN Append(EventsFor(c, k - 1), [event |-> "documents", data |-> k])
       ELSE EventsFor(c, k - 1)

IsPrefix(s, t) == Len(s) <= Len(t) /\ s = SubSeq(t, 1, Len(s))

\* C26: a client stream emits one event per notification its connection
\* received, in the order of receipt, with the channel as event name and the
\* payload as data; a message that is no notification gives no event and
\* does not end the stream.
OneEventPerNotification ==
  /\ [](\A c \in Clients :
         /\ IsPrefix(out[c], EventsFor(c, Len(pubs)))
         /\ (cpc[c] = "stream" /\ fwd[c] = "run" /\ inbox[c] = <<>> /\ rxq[c] = <<>>)
              => out[c] = EventsFor(c, Len(pubs)))
  /\ [][\A c \in Clients :
          (Emit(c) /\ Head(rxq[c]).type # "Notification")
            => (out'[c] = out[c] /\ cpc'[c] = "stream")]_vars

\* a client stream emitted the events of two notifications
TwoEventsEmitted ==
  \E c \in Clients : Len(out[c]) = 2 /\ out[c] = EventsFor(c, Len(pubs))


DashPositions(c) == {i \in DOMAIN c : c[i] = Dash}

FirstMarker(c) == CHOOSE i \in DashPositions(c) : \A j \in DashPositions(c) : i <= j

SecondMarker(c) ==
  LET rest == DashPositions(c) \ {FirstMarker(c)}
  IN CHOOSE i \in rest : \A j \in rest : i <= j

\* C27: with two or more markers the content of the document is everything
\* after the second marker as it stands, later markers and line breaks
\* included, and the text before the first marker changes nothing in the
\* result.
BodyIsRestAfterSecondMarker ==
  (res # NotRun /\ Opened.tag = "File" /\ DashCount(Opened.contents) >= 2) =>
    LET c == Opened.contents
        noPreamble == SubSeq(c, FirstMarker(c), Len(c))
    IN /\ res = path_to_doc(arg.path, Fs(Readable(noPreamble)))
       /\ (res.tag = "Ok")
            => /\ res.val.tag = "Some"
               /\ res.val.val.content = SubSeq(c, SecondMarker(c) + 1, Len(c))

\* a file whose body is a line break and a third marker was parsed into a
\* document
BodyWithMarkerParsed ==
  /\ res # NotRun /\ res.tag = "Ok"
  /\ Opened = Readable(<<Dash, "FB", Dash, NL, Dash>>)


\* the text between the first two markers, line breaks left out, is one of
\* the two blocks that deserialize as a Front
FrontBlockValid(c) ==
  SelectSeq(SubSeq(c, FirstMarker(c) + 1, SecondMarker(c) - 1), LAMBDA t : t # NL)
    \in {<<"FA">>, <<"FB">>}

ChannelPayloadTags ==
  /\ \A i \in DOMAIN enq : enq[i].tag \in {"Doc", "Error"}
  /\ Cardinality({i \in DOMAIN enq : enq[i].tag = "Error"}) <= 1
  /\ (\E i \in DOMAIN enq : enq[i].tag = "Error") => (SetupFailed /\ enq = <<ErrorPayload>>)
  /\ ~SetupFailed => \A i \in DOMAIN enq : enq[i].tag = "Doc"
  /\ \A i \in DOMAIN wlog : \A j \in DOMAIN enq :
       wlog[i].ev >= 1 => enq[j].ev # wlog[i].ev

\* an event failed, was logged, and the document of a later event was sent
DocumentSentAfterLoggedFailure ==
  \E i \in DOMAIN wlog : \E j \in DOMAIN enq :
    wlog[i].ev >= 1 /\ enq[j].tag = "Doc" /\ enq[j].ev > wlog[i].ev


\* the watcher task has ended and the worker has processed all it sent
AllProcessed == TxDropped /\ chan = <<>> /\ deq = enq /\ calls = {}

\* C30: the worker ends only after the watcher task has ended and every
\* payload it sent was dequeued and processed, and once that is so the
\* worker does end.
WorkerEndsWithWatcher ==
  /\ [](kpc = "done" => AllProcessed)
  /\ AllProcessed ~> (kpc = "done")

====
